---- MODULE Spec2Model ----
(***************************************************************************)
(* ocrmypdf-auto: the event-coalescing OCR task scheduler.                 *)
(*                                                                         *)
(* Three kinds of thread share the scheduler's objects with no lock:       *)
(*   - the watchdog observer thread, which runs on_file_touched and        *)
(*     on_file_deleted one event at a time;                                *)
(*   - the ThreadPoolExecutor workers (max_workers of them), each running  *)
(*     OcrTask.process for the future it took from the work queue;         *)
(*   - the main thread, which runs AutoOcrScheduler.shutdown once.         *)
(* The only lock is the observer's own: the observer thread holds it while *)
(* a handler runs and shutdown() takes it at observer.unschedule_all().     *)
(* Every action below is one step of one thread between two points where   *)
(* the interpreter may switch threads.  Time is a discrete clock that      *)
(* advances independently of the threads.                                  *)
(***************************************************************************)
EXTENDS Integers, Sequences, FiniteSets, TLC

\* ------------------------------------------------------------------ bounds
MaxTime == 4
MaxEvents == 3

\* --------------------------------------------------------- program constants
COALESCING_DELAY == 3
max_workers == 3

None == -1

\* Watched paths the observer reports events for, and all paths of the model.
EventPaths == {1}
\* Renames the observer reports: source and destination path of on_moved.
MovedPairs == {<<1, 2>>, <<2, 1>>}
PoolPaths == 1..(max_workers + 1)
Paths == EventPaths \cup PoolPaths
TaskIds == 1..(max_workers + 1)
FutIds == 1..(max_workers + 1)

\* Exit statuses of the external ocrmypdf command.
ExitCodes == {0, 1}

VARIABLES
    now,            \* datetime.now()
    path,           \* OcrTask.path, per task object (0: object not constructed)
    state,          \* OcrTask.state
    last_touch,     \* OcrTask.last_touch (None or a time)
    future,         \* OcrTask.future (0 or a future id)
    fstate,         \* concurrent.futures.Future state
    ftask,          \* the task whose bound method process the future runs
    pc,             \* position of the worker running the future inside process()
    due,            \* local variable due of process()
    workq,          \* ThreadPoolExecutor work queue (FIFO of futures)
    ret,            \* per worker: the future submit() returned to enqueue(), not stored yet
    current_tasks,  \* AutoOcrScheduler.current_tasks, an insertion-ordered dict
    threadpool,     \* "up", "shutdown" (shutdown() called on it) or "none"
    observer,       \* "running", "dead" (ended by an exception), "stopped" or "none"
    evpc,           \* position of the observer thread inside its handler
    evpath,         \* argument path of the handler being run
    evtask,         \* task object the handler holds
    nevents,        \* handler callbacks made so far (on_moved makes two)
    evnext,         \* destination path on_moved still has to report as touched (0: none)
    shpc,           \* position of the main thread inside shutdown()
    tasks,          \* local list tasks of shutdown()
    shtask,         \* loop variable task of shutdown()
    itused,         \* dict iterator of shutdown(): size of the dict when it was created
    itpos,          \* dict iterator of shutdown(): live entries it has gone past
    raised,         \* exceptions raised so far, by site
    \* History variables: they record what happened and steer nothing.
    lastT,          \* per path: time of the latest touch() (None: none yet)
    burst,          \* per path: the latest touch came less than the delay after the one before
    deleted,        \* per path: on_file_deleted has been handled for it
    owed,           \* per path: touched, and since then neither deleted nor a job started
    jobStart,       \* per future: time its external job was invoked (None: no job in flight)
    jobSaw,         \* per future: lastT of its path at that moment if part of a burst, else None
    delPending,     \* per task: deleted while QUEUED/SLEEPING inside its window, not touched since
    execTouched,    \* per task: touched while its job was executing, not cancelled or re-run since
    shutQueued,     \* tasks that were QUEUED when shutdown() took its snapshot
    shutTasks,      \* tasks that existed and were not DONE when shutdown() was entered
    cancelledActive,\* per task: cancel() came while its job was executing, no touch since
    cancelFailed    \* per task: cancel() found it QUEUED and future.cancel() returned False

vars == <<now, path, state, last_touch, future, fstate, ftask, pc, due, workq,
          ret, current_tasks, threadpool, observer, evpc, evpath, evtask, nevents, evnext,
          shpc, tasks, shtask, itused, itpos, raised,
          lastT, burst, deleted, owed, jobStart, jobSaw, delPending, execTouched, shutQueued,
          shutTasks, cancelledActive, cancelFailed>>

taskVars == <<path, state, last_touch, future>>
futVars == <<fstate, ftask, pc, due, workq, ret>>
evVars == <<evpc, evpath, evtask, nevents, evnext>>
iterVars == <<itused, itpos>>
shVars == <<shpc, tasks, shtask, iterVars>>
pathHist == <<lastT, burst, deleted, owed>>
jobHist == <<jobStart, jobSaw>>
cancelHist == <<cancelledActive, cancelFailed>>
hist == <<pathHist, jobHist, delPending, execTouched, shutQueued, shutTasks, cancelHist>>

\* ------------------------------------------------------------- the registry
InRegistry(p) == \E i \in 1..Len(current_tasks) : current_tasks[i][1] = p

Lookup(p) == current_tasks[CHOOSE i \in 1..Len(current_tasks) : current_tasks[i][1] = p][2]

Registered(t) == \E i \in 1..Len(current_tasks) : current_tasks[i][2] = t

DelItem(p) == SelectSeq(current_tasks, LAMBDA e : e[1] # p)

\* The dict iterator of shutdown() walks the entries in insertion order; an
\* entry deleted behind it leaves one live entry fewer behind it.  (No iterator
\* is open while itpos = 0.)
IndexOf(p) == CHOOSE i \in 1..Len(current_tasks) : current_tasks[i][1] = p

PosAfterDel(p) == IF InRegistry(p) /\ IndexOf(p) <= itpos THEN itpos - 1 ELSE itpos

SetItem(p, t) ==
    IF InRegistry(p)
    THEN [i \in 1..Len(current_tasks) |->
            IF current_tasks[i][1] = p THEN <<p, t>> ELSE current_tasks[i]]
    ELSE Append(current_tasks, <<p, t>>)

\* ------------------------------------------------------------ the pool
Running == {f \in FutIds : fstate[f] = "RUNNING"}

Live(t) == \E f \in FutIds : ftask[f] = t /\ fstate[f] \in {"PENDING", "RUNNING"}

\* A pool that lets one worker too many take work.
HasIdleWorkerOffByOne == Cardinality(Running) <= max_workers

HasIdleWorker == Cardinality(Running) < max_workers

FreshFuture == CHOOSE f \in FutIds : fstate[f] = "NONE" /\ \A g \in FutIds : fstate[g] = "NONE" => f <= g

FreshTask == CHOOSE t \in TaskIds : state[t] = "NONE" /\ \A u \in TaskIds : state[u] = "NONE" => t <= u

CanSubmit == \E f \in FutIds : fstate[f] = "NONE"

\* The end of a process() call: the future is finished, normally or by an exception.
Finish(f) ==
    /\ fstate' = [fstate EXCEPT ![f] = "FINISHED"]
    /\ pc' = [pc EXCEPT ![f] = "end"]
    /\ due' = [due EXCEPT ![f] = None]

Init ==
    /\ now = 0
    /\ path = [t \in TaskIds |-> 0]
    /\ state = [t \in TaskIds |-> "NONE"]
    /\ last_touch = [t \in TaskIds |-> None]
    /\ future = [t \in TaskIds |-> 0]
    /\ fstate = [f \in FutIds |-> "NONE"]
    /\ ftask = [f \in FutIds |-> 0]
    /\ pc = [f \in FutIds |-> "end"]
    /\ due = [f \in FutIds |-> None]
    /\ workq = <<>>
    /\ ret = [f \in FutIds |-> 0]
    /\ current_tasks = <<>>
    /\ threadpool = "up"
    /\ observer = "running"
    /\ evpc = "idle"
    /\ evpath = 0
    /\ evtask = 0
    /\ nevents = 0
    /\ evnext = 0
    /\ shpc = "wait"
    /\ tasks = <<>>
    /\ shtask = 0
    /\ itused = 0
    /\ itpos = 0
    /\ raised = {}
    /\ lastT = [p \in Paths |-> None]
    /\ burst = [p \in Paths |-> FALSE]
    /\ deleted = [p \in Paths |-> FALSE]
    /\ owed = [p \in Paths |-> FALSE]
    /\ jobStart = [f \in FutIds |-> None]
    /\ jobSaw = [f \in FutIds |-> None]
    /\ delPending = [t \in TaskIds |-> FALSE]
    /\ execTouched = [t \in TaskIds |-> FALSE]
    /\ shutQueued = {}
    /\ shutTasks = {}
    /\ cancelledActive = [t \in TaskIds |-> FALSE]
    /\ cancelFailed = [t \in TaskIds |-> FALSE]

\* ------------------------------------------------------------------ time
Tick ==
    /\ now < MaxTime
    /\ now' = now + 1
    /\ UNCHANGED <<taskVars, futVars, current_tasks, threadpool, observer, evVars, shVars, raised, hist>>

\* ------------------------------------------------- ThreadPoolExecutor worker
\* A worker takes the next work item; a cancelled future is dropped, any other
\* is set running and its process() call begins.
Take ==
    /\ workq # <<>>
    /\ HasIdleWorker
    /\ LET f == Head(workq) IN
        /\ workq' = Tail(workq)
        /\ IF fstate[f] = "CANCELLED"
           THEN UNCHANGED <<fstate, pc>>
           ELSE /\ fstate' = [fstate EXCEPT ![f] = "RUNNING"]
                /\ pc' = [pc EXCEPT ![f] = "check"]
    /\ UNCHANGED <<now, taskVars, ftask, due, ret, current_tasks, threadpool, observer, evVars, shVars, raised, hist>>

\* process(), line 151: the cancellation check at the top of the coalescing loop.
Check(f) ==
    /\ fstate[f] = "RUNNING" /\ pc[f] = "check"
    /\ pc' = [pc EXCEPT ![f] = IF last_touch[ftask[f]] = None THEN "done1" ELSE "due"]
    /\ UNCHANGED <<now, taskVars, fstate, ftask, due, workq, ret, current_tasks, threadpool, observer, evVars, shVars, raised, hist>>

\* process(), line 156: due = self.last_touch + COALESCING_DELAY; None + timedelta
\* raises TypeError, which ends the process() call.
Due(f) ==
    /\ fstate[f] = "RUNNING" /\ pc[f] = "due"
    /\ IF last_touch[ftask[f]] = None
       THEN /\ Finish(f)
            /\ raised' = raised \cup {"process:TypeError"}
       ELSE /\ due' = [due EXCEPT ![f] = last_touch[ftask[f]] + COALESCING_DELAY]
            /\ pc' = [pc EXCEPT ![f] = "cmp"]
            /\ UNCHANGED <<fstate, raised>>
    /\ UNCHANGED <<now, taskVars, ftask, workq, ret, current_tasks, threadpool, observer, evVars, shVars, hist>>

\* process(), lines 157-161: leave the loop when due has passed, else go to sleep.
Cmp(f) ==
    /\ fstate[f] = "RUNNING" /\ pc[f] = "cmp"
    /\ IF due[f] - now <= 0
       THEN /\ pc' = [pc EXCEPT ![f] = "active"]
            /\ due' = [due EXCEPT ![f] = None]
            /\ UNCHANGED state
       ELSE /\ state' = [state EXCEPT ![ftask[f]] = "SLEEPING"]
            /\ pc' = [pc EXCEPT ![f] = "sleep"]
            /\ UNCHANGED due
    /\ UNCHANGED <<now, path, last_touch, future, fstate, ftask, workq, ret, current_tasks, threadpool, observer, evVars, shVars, raised, hist>>

\* process(), line 162: time.sleep returns once the wait span has elapsed.
Wake(f) ==
    /\ fstate[f] = "RUNNING" /\ pc[f] = "sleep"
    /\ now >= due[f]
    /\ pc' = [pc EXCEPT ![f] = "check"]
    /\ due' = [due EXCEPT ![f] = None]
    /\ UNCHANGED <<now, taskVars, fstate, ftask, workq, ret, current_tasks, threadpool, observer, evVars, shVars, raised, hist>>

\* process() with the store of line 165 left out: the state stays as the
\* coalescing loop left it.
SetActiveKeepsState(f) ==
    /\ fstate[f] = "RUNNING" /\ pc[f] = "active"
    /\ pc' = [pc EXCEPT ![f] = "clear"]
    /\ UNCHANGED <<now, taskVars, fstate, ftask, due, workq, ret, current_tasks, threadpool, observer, evVars, shVars, raised, hist>>

\* process(), line 165.
SetActive(f) ==
    /\ fstate[f] = "RUNNING" /\ pc[f] = "active"
    /\ state' = [state EXCEPT ![ftask[f]] = "ACTIVE"]
    /\ pc' = [pc EXCEPT ![f] = "clear"]
    /\ UNCHANGED <<now, path, last_touch, future, fstate, ftask, due, workq, ret, current_tasks, threadpool, observer, evVars, shVars, raised, hist>>

\* process(), lines 166-174: last_touch is cleared and the external job is invoked.
Clear(f) ==
    /\ fstate[f] = "RUNNING" /\ pc[f] = "clear"
    /\ last_touch' = [last_touch EXCEPT ![ftask[f]] = None]
    /\ pc' = [pc EXCEPT ![f] = "exec"]
    /\ jobStart' = [jobStart EXCEPT ![f] = now]
    /\ jobSaw' = [jobSaw EXCEPT ![f] =
            IF burst[path[ftask[f]]] /\ ~deleted[path[ftask[f]]] THEN lastT[path[ftask[f]]] ELSE None]
    /\ owed' = [owed EXCEPT ![path[ftask[f]]] = FALSE]
    /\ execTouched' = [execTouched EXCEPT ![ftask[f]] = FALSE]
    /\ UNCHANGED <<now, path, state, future, fstate, ftask, due, workq, ret, current_tasks, threadpool, observer, evVars, shVars, raised, lastT, burst, deleted, delPending, shutQueued,
                   shutTasks, cancelHist>>

\* process(), line 174: ocrmypdf.run() returns.  plumbum's run() validates the
\* exit status against retcode=0 and raises ProcessExecutionError otherwise.
JobReturn(f) ==
    /\ fstate[f] = "RUNNING" /\ pc[f] = "exec"
    /\ jobStart' = [jobStart EXCEPT ![f] = None]
    /\ jobSaw' = [jobSaw EXCEPT ![f] = None]
    /\ \E rc \in ExitCodes :
        IF rc = 0
        THEN /\ pc' = [pc EXCEPT ![f] = "post"]
             /\ UNCHANGED <<fstate, due, raised>>
        ELSE /\ Finish(f)
             /\ raised' = raised \cup {"process:ProcessExecutionError"}
    /\ UNCHANGED <<now, taskVars, ftask, workq, ret, current_tasks, threadpool, observer, evVars, shVars, pathHist, delPending, execTouched, shutQueued,
                   shutTasks, cancelHist>>

\* process(), line 181: was the file modified during the execution?
Post(f) ==
    /\ fstate[f] = "RUNNING" /\ pc[f] = "post"
    /\ pc' = [pc EXCEPT ![f] = IF last_touch[ftask[f]] # None THEN "enq1" ELSE "done1"]
    /\ UNCHANGED <<now, taskVars, fstate, ftask, due, workq, ret, current_tasks, threadpool, observer, evVars, shVars, raised, hist>>

\* enqueue(), line 119, called from process() line 183: the assertion.
Enqueue1(f) ==
    /\ fstate[f] = "RUNNING" /\ pc[f] = "enq1"
    /\ IF state[ftask[f]] \in {"NEW", "ACTIVE"}
       THEN /\ pc' = [pc EXCEPT ![f] = "enq1s"]
            /\ UNCHANGED <<fstate, due, raised>>
       ELSE /\ Finish(f)
            /\ raised' = raised \cup {"process:AssertionError"}
    /\ UNCHANGED <<now, taskVars, ftask, workq, ret, current_tasks, threadpool, observer, evVars, shVars, hist>>

\* enqueue(), line 120: self.state = QUEUED, whatever the state has become
\* since the assertion.
EnqueueState(f) ==
    /\ fstate[f] = "RUNNING" /\ pc[f] = "enq1s"
    /\ state' = [state EXCEPT ![ftask[f]] = "QUEUED"]
    /\ pc' = [pc EXCEPT ![f] = "enq2"]
    /\ UNCHANGED <<now, path, last_touch, future, fstate, ftask, due, workq, ret, current_tasks, threadpool, observer, evVars, shVars, raised, hist>>

\* enqueue(), line 122, right-hand side, called from process() line 183:
\* submit() puts a new future on the work queue and returns it; it raises
\* RuntimeError once the executor has been shut down, and process() then ends.
\* From here on a worker may take the new future while this call still runs.
Enqueue2(f) ==
    /\ fstate[f] = "RUNNING" /\ pc[f] = "enq2"
    /\ IF threadpool = "up"
       THEN /\ CanSubmit
            /\ LET g == FreshFuture IN
                /\ fstate' = [fstate EXCEPT ![g] = "PENDING"]
                /\ ftask' = [ftask EXCEPT ![g] = ftask[f]]
                /\ workq' = Append(workq, g)
                /\ ret' = [ret EXCEPT ![f] = g]
            /\ pc' = [pc EXCEPT ![f] = "enq3"]
            /\ UNCHANGED <<due, raised>>
       ELSE /\ Finish(f)
            /\ raised' = raised \cup {"process:RuntimeError"}
            /\ UNCHANGED <<ftask, workq, ret>>
    /\ UNCHANGED <<now, taskVars, current_tasks, threadpool, observer, evVars, shVars, hist>>

\* enqueue(), line 122, the assignment self.future = ...
Enqueue3(f) ==
    /\ fstate[f] = "RUNNING" /\ pc[f] = "enq3"
    /\ future' = [future EXCEPT ![ftask[f]] = ret[f]]
    /\ ret' = [ret EXCEPT ![f] = 0]
    /\ pc' = [pc EXCEPT ![f] = "ret"]
    /\ UNCHANGED <<now, path, state, last_touch, fstate, ftask, due, workq, current_tasks, threadpool, observer, evVars, shVars, raised, hist>>

\* process(), line 184: the return after enqueue(); the worker sets the old
\* future finished.
Return(f) ==
    /\ fstate[f] = "RUNNING" /\ pc[f] = "ret"
    /\ Finish(f)
    /\ UNCHANGED <<now, taskVars, ftask, workq, ret, current_tasks, threadpool, observer, evVars, shVars, raised, hist>>

\* done(), line 139, called from process() line 153 or 187.
Done1(f) ==
    /\ fstate[f] = "RUNNING" /\ pc[f] = "done1"
    /\ state' = [state EXCEPT ![ftask[f]] = "DONE"]
    /\ pc' = [pc EXCEPT ![f] = "done2"]
    /\ UNCHANGED <<now, path, last_touch, future, fstate, ftask, due, workq, ret, current_tasks, threadpool, observer, evVars, shVars, raised, hist>>

\* done(), line 141, and on_task_done: del self.current_tasks[task.path], which
\* raises KeyError when the key is absent.
Done2(f) ==
    /\ fstate[f] = "RUNNING" /\ pc[f] = "done2"
    /\ Finish(f)
    /\ IF InRegistry(path[ftask[f]])
       THEN /\ current_tasks' = DelItem(path[ftask[f]])
            /\ UNCHANGED raised
       ELSE /\ raised' = raised \cup {"process:KeyError"}
            /\ UNCHANGED current_tasks
    /\ itpos' = PosAfterDel(path[ftask[f]])
    /\ UNCHANGED <<now, taskVars, ftask, workq, ret, threadpool, observer, evVars, shpc, tasks, shtask, itused, hist>>

Worker(f) ==
    \/ Check(f) \/ Due(f) \/ Cmp(f) \/ Wake(f) \/ SetActive(f) \/ Clear(f)
    \/ JobReturn(f) \/ Post(f)
    \/ Enqueue1(f) \/ EnqueueState(f) \/ Enqueue2(f) \/ Enqueue3(f) \/ Return(f)
    \/ Done1(f) \/ Done2(f)

\* --------------------------------------------------- OcrTask.touch / cancel
Executing(t) == \E f \in FutIds : ftask[f] = t /\ fstate[f] = "RUNNING" /\ pc[f] = "exec"

\* What touch() of task t of path p leaves in the history variables.
TouchHist(p, t) ==
    /\ lastT' = [lastT EXCEPT ![p] = now]
    /\ burst' = [burst EXCEPT ![p] = lastT[p] # None /\ now - lastT[p] < COALESCING_DELAY]
    /\ owed' = [owed EXCEPT ![p] = TRUE]
    /\ delPending' = [delPending EXCEPT ![t] = FALSE]
    /\ execTouched' = [execTouched EXCEPT ![t] = execTouched[t] \/ Executing(t)]
    /\ cancelledActive' = [cancelledActive EXCEPT ![t] = FALSE]
    /\ UNCHANGED <<deleted, jobHist, shutQueued, shutTasks, cancelFailed>>

\* Future.cancel() returns True for a pending future (and for one cancelled
\* before), False for one that is running or finished.
CancelSucceeds(g) == g # 0 /\ fstate[g] \in {"PENDING", "CANCELLED"}

\* Future.cancel(): only a pending future is cancelled.
FutureCancel(g) ==
    IF g # 0 /\ fstate[g] = "PENDING" THEN [fstate EXCEPT ![g] = "CANCELLED"] ELSE fstate

\* ------------------------------------------------------- the observer thread
\* The thread dispatches one event at a time to AutoOcrWatchdogHandler, which
\* calls on_file_touched (on_created, on_modified), on_file_deleted (on_deleted)
\* or both in turn (on_moved).  The thread holds the observer's lock while a
\* handler runs.  An exception raised inside a callback leaves the thread's run
\* loop: the thread ends and dispatches no later event.
\* on_file_touched, line 280: the membership test.
TouchTest(p) ==
    /\ evpath' = p
    /\ evpc' = IF InRegistry(p) THEN "touch" ELSE "create"

\* on_created / on_modified, lines 214-224: a new dispatch begins.
OnFileTouched(p) ==
    /\ evpc = "idle" /\ observer = "running" /\ nevents < MaxEvents
    /\ nevents' = nevents + 1
    /\ TouchTest(p)
    /\ UNCHANGED <<now, taskVars, futVars, current_tasks, threadpool, observer, evtask, evnext, shVars, raised, hist>>

\* on_file_touched, line 281, and touch(), lines 126-127: the registry is indexed
\* (KeyError when the key has gone) and the time recorded.  enqueue() is not
\* reached: the constructor has already taken the task out of NEW.
Touch ==
    /\ evpc = "touch"
    /\ evpc' = "idle" /\ evpath' = 0
    /\ IF InRegistry(evpath)
       THEN /\ last_touch' = [last_touch EXCEPT ![Lookup(evpath)] = now]
            /\ TouchHist(evpath, Lookup(evpath))
            /\ UNCHANGED <<raised, observer>>
       ELSE /\ raised' = raised \cup {"observer:KeyError"}
            /\ observer' = "dead"
            /\ UNCHANGED <<last_touch, hist>>
    /\ UNCHANGED <<now, path, state, future, futVars, current_tasks, threadpool, evtask, nevents, evnext, shVars>>

\* on_file_touched, line 283, right-hand side: OcrTask(path, self.threadpool.submit,
\* self.on_task_done).  __init__ (lines 98-106) runs touch() and enqueue(), so the
\* new task is QUEUED and its future submitted before the registry knows it.
\* Until then no other thread reaches the task but the worker that runs its
\* process(), which neither reads self.future nor, with last_touch cleared at
\* line 166 and no touch possible, re-enqueues: the constructor's steps are one.
Create ==
    /\ evpc = "create"
    /\ IF threadpool = "up"
       THEN /\ CanSubmit
            /\ LET t == FreshTask
                   g == FreshFuture IN
                /\ path' = [path EXCEPT ![t] = evpath]
                /\ state' = [state EXCEPT ![t] = "QUEUED"]
                /\ last_touch' = [last_touch EXCEPT ![t] = now]
                /\ future' = [future EXCEPT ![t] = g]
                /\ fstate' = [fstate EXCEPT ![g] = "PENDING"]
                /\ ftask' = [ftask EXCEPT ![g] = t]
                /\ workq' = Append(workq, g)
                /\ evtask' = t
                /\ TouchHist(evpath, t)
            /\ evpc' = "insert"
            /\ UNCHANGED <<evpath, raised, observer>>
       ELSE /\ raised' = raised \cup
                {IF threadpool = "none" THEN "observer:AttributeError" ELSE "observer:RuntimeError"}
            /\ observer' = "dead"
            /\ evpc' = "idle" /\ evpath' = 0
            /\ UNCHANGED <<taskVars, fstate, ftask, workq, evtask, hist>>
    /\ UNCHANGED <<now, pc, due, ret, current_tasks, threadpool, nevents, evnext, shVars>>

\* on_file_touched, line 283, the assignment self.current_tasks[path] = ...
Insert ==
    /\ evpc = "insert"
    /\ current_tasks' = SetItem(evpath, evtask)
    /\ evpc' = "idle" /\ evpath' = 0 /\ evtask' = 0
    /\ UNCHANGED <<now, taskVars, futVars, threadpool, observer, nevents, evnext, shVars, raised, hist>>

\* Where the dispatch goes on when on_file_deleted has returned: on_moved still
\* has touch_file(dest) to call (line 212), on_deleted is over.
AfterDelete == IF evnext # 0 THEN "moved2" ELSE "idle"

\* on_file_deleted, line 286: the membership test for path p, in a dispatch
\* that has the path nxt to report as touched afterwards (0: none).
DeleteTest(p, nxt) ==
    /\ evnext' = nxt
    /\ IF InRegistry(p)
       THEN /\ evpc' = "cancel" /\ evpath' = p
            /\ UNCHANGED <<deleted, owed, burst, lastT>>
       ELSE /\ deleted' = [deleted EXCEPT ![p] = TRUE]
            /\ owed' = [owed EXCEPT ![p] = FALSE]
            /\ burst' = [burst EXCEPT ![p] = FALSE]
            /\ lastT' = [lastT EXCEPT ![p] = None]
            /\ evpc' = IF nxt # 0 THEN "moved2" ELSE "idle"
            /\ UNCHANGED evpath

\* on_deleted, lines 218-220: a new dispatch begins.
OnFileDeleted(p) ==
    /\ evpc = "idle" /\ observer = "running" /\ nevents < MaxEvents
    /\ nevents' = nevents + 1
    /\ DeleteTest(p, 0)
    /\ UNCHANGED <<now, taskVars, futVars, current_tasks, threadpool, observer, evtask, shVars, raised,
                   jobHist, delPending, execTouched, shutQueued, shutTasks, cancelHist>>

\* on_moved, lines 209-211: a new dispatch begins with delete_file(src).
\* The event makes two callbacks, delete_file(src) and touch_file(dest).
OnMoved(src, dest) ==
    /\ evpc = "idle" /\ observer = "running" /\ nevents + 2 <= MaxEvents
    /\ nevents' = nevents + 2
    /\ DeleteTest(src, dest)
    /\ UNCHANGED <<now, taskVars, futVars, current_tasks, threadpool, observer, evtask, shVars, raised,
                   jobHist, delPending, execTouched, shutQueued, shutTasks, cancelHist>>

\* on_moved, line 212: touch_file(dest) follows in the same dispatch.
MovedTouch ==
    /\ evpc = "moved2"
    /\ TouchTest(evnext)
    /\ evnext' = 0
    /\ UNCHANGED <<now, taskVars, futVars, current_tasks, threadpool, observer, evtask, nevents, shVars, raised, hist>>

\* on_file_deleted, line 287, and cancel(), line 132.
Cancel ==
    /\ evpc = "cancel"
    /\ IF InRegistry(evpath)
       THEN LET t == Lookup(evpath) IN
            /\ last_touch' = [last_touch EXCEPT ![t] = None]
            /\ evtask' = t
            /\ evpc' = "c_chk"
            /\ deleted' = [deleted EXCEPT ![evpath] = TRUE]
            /\ owed' = [owed EXCEPT ![evpath] = FALSE]
            /\ burst' = [burst EXCEPT ![evpath] = FALSE]
            /\ lastT' = [lastT EXCEPT ![evpath] = None]
            /\ delPending' = [delPending EXCEPT ![t] =
                    /\ state[t] \in {"QUEUED", "SLEEPING"}
                    /\ last_touch[t] # None
                    /\ now < last_touch[t] + COALESCING_DELAY]
            /\ execTouched' = [execTouched EXCEPT ![t] = FALSE]
            /\ cancelledActive' = [cancelledActive EXCEPT ![t] = Executing(t)]
            /\ UNCHANGED <<evpath, evnext, raised, observer>>
       ELSE /\ raised' = raised \cup {"observer:KeyError"}
            /\ observer' = "dead"
            /\ evpc' = "idle" /\ evpath' = 0 /\ evnext' = 0
            /\ UNCHANGED <<last_touch, evtask, pathHist, delPending, execTouched, cancelledActive>>
    /\ UNCHANGED <<now, path, state, future, futVars, current_tasks, threadpool, nevents, shVars,
                   jobHist, shutQueued, shutTasks, cancelFailed>>

\* cancel(), lines 133-134: a QUEUED task cancels its future, without looking at
\* whether that succeeded, and goes on to done().
CancelQueued ==
    /\ evpc = "c_chk"
    /\ IF state[evtask] = "QUEUED"
       THEN /\ fstate' = FutureCancel(future[evtask])
            /\ cancelFailed' = [cancelFailed EXCEPT ![evtask] =
                    cancelFailed[evtask] \/ ~CancelSucceeds(future[evtask])]
            /\ evpc' = "c_done1"
            /\ UNCHANGED <<evpath, evtask>>
       ELSE /\ evpc' = AfterDelete /\ evpath' = 0 /\ evtask' = 0
            /\ UNCHANGED <<fstate, cancelFailed>>
    /\ UNCHANGED <<now, taskVars, ftask, pc, due, workq, ret, current_tasks, threadpool, observer, nevents, evnext, shVars, raised,
                   pathHist, jobHist, delPending, execTouched, shutQueued, shutTasks, cancelledActive>>

\* done(), line 139, called from cancel() line 135.
CancelDone1 ==
    /\ evpc = "c_done1"
    /\ state' = [state EXCEPT ![evtask] = "DONE"]
    /\ evpc' = "c_done2"
    /\ UNCHANGED <<now, path, last_touch, future, futVars, current_tasks, threadpool, observer, evpath, evtask, nevents, evnext, shVars, raised, hist>>

\* done(), line 141, and on_task_done, called from cancel() line 135; a
\* KeyError ends the dispatch and the thread.
CancelDone2 ==
    /\ evpc = "c_done2"
    /\ evpath' = 0 /\ evtask' = 0
    /\ IF InRegistry(path[evtask])
       THEN /\ current_tasks' = DelItem(path[evtask])
            /\ evpc' = AfterDelete
            /\ UNCHANGED <<evnext, raised, observer>>
       ELSE /\ raised' = raised \cup {"observer:KeyError"}
            /\ observer' = "dead"
            /\ evpc' = "idle" /\ evnext' = 0
            /\ UNCHANGED current_tasks
    /\ itpos' = PosAfterDel(path[evtask])
    /\ UNCHANGED <<now, taskVars, futVars, threadpool, nevents, shpc, tasks, shtask, itused, hist>>

\* ------------------------------------------- the main thread in shutdown()
\* shutdown() with line 251 left out: the observer is told to stop without
\* taking its lock, so a handler that is running goes on beside shutdown().
StopObserverNoLock ==
    /\ shpc = "wait"
    /\ observer' = "stopped"
    /\ shpc' = "snapshot"
    /\ shutTasks' = {t \in TaskIds : state[t] \notin {"NONE", "DONE"}}
    /\ UNCHANGED <<now, taskVars, futVars, current_tasks, threadpool, evVars, tasks, shtask, iterVars, raised,
                   pathHist, jobHist, delPending, execTouched, shutQueued, cancelHist>>

\* shutdown(), lines 249-252.  observer.unschedule_all() (line 251) takes the
\* observer's lock, which the observer thread holds for the whole of a dispatch
\* (both callbacks of on_moved included): shutdown() waits there for the handler
\* in flight.  It then removes every handler, and stop() (line 252) ends the
\* thread: no callback runs from here on.
StopObserver ==
    /\ shpc = "wait"
    /\ evpc = "idle"
    /\ observer' = "stopped"
    /\ shpc' = "snapshot"
    /\ shutTasks' = {t \in TaskIds : state[t] \notin {"NONE", "DONE"}}
    /\ UNCHANGED <<now, taskVars, futVars, current_tasks, threadpool, evVars, tasks, shtask, iterVars, raised,
                   pathHist, jobHist, delPending, execTouched, shutQueued, cancelHist>>

\* shutdown(), line 256: self.current_tasks.items() and the iterator the list
\* comprehension opens on it; the iterator remembers the size of the dict.
Snapshot ==
    /\ shpc = "snapshot"
    /\ tasks' = <<>>
    /\ itused' = Len(current_tasks)
    /\ itpos' = 0
    /\ shutQueued' = {}
    /\ shpc' = "snapshot_next"
    /\ UNCHANGED <<now, taskVars, futVars, current_tasks, threadpool, observer, evVars, shtask, raised,
                   pathHist, jobHist, delPending, execTouched, shutTasks, cancelHist>>

\* shutdown(), line 256: one step of the list comprehension, the iterator's
\* next().  It raises RuntimeError when the size of the dict is no longer the
\* one remembered ("dictionary changed size during iteration"), ends the
\* comprehension when no entry is left beyond its position, raises RuntimeError
\* when it finds an entry although it has handed out as many as it remembered
\* ("dictionary keys changed during iteration"), and else hands out the next
\* entry, whose task the comprehension appends.  A RuntimeError leaves
\* shutdown() at once.
SnapshotNext ==
    /\ shpc = "snapshot_next"
    /\ IF Len(current_tasks) # itused \/ (itpos < Len(current_tasks) /\ Len(tasks) = itused)
       THEN /\ shpc' = "failed"
            /\ tasks' = <<>>
            /\ itused' = 0 /\ itpos' = 0
            /\ raised' = raised \cup {"shutdown:RuntimeError"}
            /\ UNCHANGED shutQueued
       ELSE IF itpos >= Len(current_tasks)
       THEN /\ shpc' = "loop"
            /\ itused' = 0 /\ itpos' = 0
            /\ UNCHANGED <<tasks, raised, shutQueued>>
       ELSE /\ tasks' = Append(tasks, current_tasks[itpos + 1][2])
            /\ itpos' = itpos + 1
            /\ shutQueued' = shutQueued \cup
                    {t \in {current_tasks[itpos + 1][2]} : state[t] = "QUEUED"}
            /\ UNCHANGED <<shpc, itused, raised>>
    /\ UNCHANGED <<now, taskVars, futVars, current_tasks, threadpool, observer, evVars, shtask,
                   pathHist, jobHist, delPending, execTouched, shutTasks, cancelHist>>

\* shutdown(), lines 257-258, and cancel(), line 132, for the next task of the list.
ShutdownCancel ==
    /\ shpc = "loop" /\ tasks # <<>>
    /\ shtask' = Head(tasks)
    /\ tasks' = Tail(tasks)
    /\ last_touch' = [last_touch EXCEPT ![Head(tasks)] = None]
    /\ owed' = [owed EXCEPT ![path[Head(tasks)]] = FALSE]
    /\ execTouched' = [execTouched EXCEPT ![Head(tasks)] = FALSE]
    /\ cancelledActive' = [cancelledActive EXCEPT ![Head(tasks)] = Executing(Head(tasks))]
    /\ shpc' = "c_chk"
    /\ UNCHANGED <<now, path, state, future, futVars, current_tasks, threadpool, observer, evVars, iterVars, raised,
                   lastT, burst, deleted, jobHist, delPending, shutQueued, shutTasks, cancelFailed>>

\* cancel(), lines 133-134, called from shutdown().
ShutdownCancelQueued ==
    /\ shpc = "c_chk"
    /\ IF state[shtask] = "QUEUED"
       THEN /\ fstate' = FutureCancel(future[shtask])
            /\ cancelFailed' = [cancelFailed EXCEPT ![shtask] =
                    cancelFailed[shtask] \/ ~CancelSucceeds(future[shtask])]
            /\ shpc' = "c_done1"
            /\ UNCHANGED shtask
       ELSE /\ shpc' = "loop" /\ shtask' = 0
            /\ UNCHANGED <<fstate, cancelFailed>>
    /\ UNCHANGED <<now, taskVars, ftask, pc, due, workq, ret, current_tasks, threadpool, observer, evVars, tasks, iterVars, raised,
                   pathHist, jobHist, delPending, execTouched, shutQueued, shutTasks, cancelledActive>>

\* done(), line 139, called from shutdown() through cancel().
ShutdownDone1 ==
    /\ shpc = "c_done1"
    /\ state' = [state EXCEPT ![shtask] = "DONE"]
    /\ shpc' = "c_done2"
    /\ UNCHANGED <<now, path, last_touch, future, futVars, current_tasks, threadpool, observer, evVars, tasks, shtask, iterVars, raised, hist>>

\* done(), line 141, and on_task_done, called from shutdown() through cancel();
\* a KeyError leaves shutdown() at once.
ShutdownDone2 ==
    /\ shpc = "c_done2"
    /\ shtask' = 0
    /\ IF InRegistry(path[shtask])
       THEN /\ current_tasks' = DelItem(path[shtask])
            /\ shpc' = "loop"
            /\ UNCHANGED raised
       ELSE /\ raised' = raised \cup {"shutdown:KeyError"}
            /\ shpc' = "failed"
            /\ UNCHANGED current_tasks
    /\ UNCHANGED <<now, taskVars, futVars, threadpool, observer, evVars, tasks, iterVars, hist>>

\* shutdown(), line 263, first half: the executor refuses new work from now on.
PoolShutdown ==
    /\ shpc = "loop" /\ tasks = <<>>
    /\ threadpool' = "shutdown"
    /\ shpc' = "join"
    /\ UNCHANGED <<now, taskVars, futVars, current_tasks, observer, evVars, tasks, shtask, iterVars, raised, hist>>

\* shutdown(), lines 263-264: shutdown(wait=True) returns once the workers have
\* drained the queue and ended; then self.threadpool = None.
PoolJoined ==
    /\ shpc = "join"
    /\ workq = <<>> /\ Running = {}
    /\ threadpool' = "none"
    /\ shpc' = "ojoin"
    /\ UNCHANGED <<now, taskVars, futVars, current_tasks, observer, evVars, tasks, shtask, iterVars, raised, hist>>

\* shutdown(), lines 267-270: observer.join() waits for the observer thread.
ObserverJoined ==
    /\ shpc = "ojoin"
    /\ evpc = "idle"
    /\ observer' = "none"
    /\ shpc' = "done"
    /\ UNCHANGED <<now, taskVars, futVars, current_tasks, threadpool, evVars, tasks, shtask, iterVars, raised, hist>>

\* shutdown() left by an exception (line 256 or 258): __exit__ (lines 275-277)
\* lets it through and the main thread ends (line 314).  The interpreter's exit
\* closes the executor to submits; the workers drain the queue and end.
PythonExit ==
    /\ shpc = "failed"
    /\ threadpool' = "shutdown"
    /\ shpc' = "exiting"
    /\ UNCHANGED <<now, taskVars, futVars, current_tasks, observer, evVars, tasks, shtask, iterVars, raised, hist>>

\* The interpreter's exit has waited for the workers; the process ends.  The
\* observer thread was stopped at line 252 and is not joined.
ProcessExit ==
    /\ shpc = "exiting"
    /\ workq = <<>> /\ Running = {}
    /\ shpc' = "exited"
    /\ observer' = "none"
    /\ UNCHANGED <<now, taskVars, futVars, current_tasks, threadpool, evVars, tasks, shtask, iterVars, raised, hist>>

Observer ==
    \/ \E p \in EventPaths : OnFileTouched(p) \/ OnFileDeleted(p)
    \/ \E m \in MovedPairs : OnMoved(m[1], m[2])
    \/ MovedTouch
    \/ Touch \/ Create \/ Insert
    \/ Cancel \/ CancelQueued \/ CancelDone1 \/ CancelDone2

Shutdown ==
    \/ StopObserver \/ Snapshot \/ SnapshotNext
    \/ ShutdownCancel \/ ShutdownCancelQueued \/ ShutdownDone1 \/ ShutdownDone2
    \/ PoolShutdown \/ PoolJoined \/ ObserverJoined
    \/ PythonExit \/ ProcessExit

Next ==
    \/ Tick
    \/ Take
    \/ \E f \in FutIds : Worker(f)
    \/ Observer
    \/ Shutdown

Spec == Init /\ [][Next]_vars

\* ------------------------------------------------------------------------
\* A second specification for the pool bound: max_workers + 1 files were
\* created in the watched directory at time 0, so max_workers + 1 tasks are
\* QUEUED with their futures pending, and no further event arrives.
InitPool ==
    /\ now = 0
    /\ path = [t \in TaskIds |-> t]
    /\ state = [t \in TaskIds |-> "QUEUED"]
    /\ last_touch = [t \in TaskIds |-> 0]
    /\ future = [t \in TaskIds |-> t]
    /\ fstate = [f \in FutIds |-> "PENDING"]
    /\ ftask = [f \in FutIds |-> f]
    /\ pc = [f \in FutIds |-> "end"]
    /\ due = [f \in FutIds |-> None]
    /\ workq = [i \in 1..(max_workers + 1) |-> i]
    /\ ret = [f \in FutIds |-> 0]
    /\ current_tasks = [i \in 1..(max_workers + 1) |-> <<i, i>>]
    /\ threadpool = "up"
    /\ observer = "running"
    /\ evpc = "idle"
    /\ evpath = 0
    /\ evtask = 0
    /\ nevents = MaxEvents
    /\ evnext = 0
    /\ shpc = "wait"
    /\ tasks = <<>>
    /\ shtask = 0
    /\ itused = 0
    /\ itpos = 0
    /\ raised = {}
    /\ lastT = [p \in Paths |-> 0]
    /\ burst = [p \in Paths |-> FALSE]
    /\ deleted = [p \in Paths |-> FALSE]
    /\ owed = [p \in Paths |-> TRUE]
    /\ jobStart = [f \in FutIds |-> None]
    /\ jobSaw = [f \in FutIds |-> None]
    /\ delPending = [t \in TaskIds |-> FALSE]
    /\ execTouched = [t \in TaskIds |-> FALSE]
    /\ shutQueued = {}
    /\ shutTasks = {}
    /\ cancelledActive = [t \in TaskIds |-> FALSE]
    /\ cancelFailed = [t \in TaskIds |-> FALSE]

PoolWorker(f) ==
    \/ Check(f) \/ Due(f) \/ Cmp(f) \/ Wake(f) \/ SetActive(f) \/ Clear(f)
    \/ JobReturn(f) \/ Post(f) \/ Done1(f) \/ Done2(f)

NextPool ==
    \/ Tick
    \/ Take
    \/ \E f \in FutIds : PoolWorker(f)

SpecPool == InitPool /\ [][NextPool]_vars

\* ------------------------------------------------------------------------
\* A third specification, for what eventually happens when events stop and
\* shutdown() is not called.  Past MaxTime no further event is delivered and the
\* clock runs on for one more delay, so every debounce wait can end.
LateTick ==
    /\ now >= MaxTime /\ now < MaxTime + COALESCING_DELAY
    /\ evpc = "idle"
    /\ now' = now + 1
    /\ nevents' = MaxEvents
    /\ UNCHANGED <<taskVars, futVars, current_tasks, threadpool, observer, evpc, evpath, evtask, evnext, shVars, raised, hist>>

\* A handler that has begun goes on to its end.
HandlerStep ==
    \/ MovedTouch
    \/ Touch \/ Create \/ Insert
    \/ Cancel \/ CancelQueued \/ CancelDone1 \/ CancelDone2

NextLive ==
    \/ Tick
    \/ LateTick
    \/ Take
    \/ \E f \in FutIds : Worker(f)
    \/ Observer

\* Fair scheduling: time passes, an idle worker takes queued work, every worker
\* thread and the observer thread keep being scheduled, and the external job
\* returns.
Fairness ==
    /\ WF_vars(Tick)
    /\ WF_vars(LateTick)
    /\ WF_vars(Take)
    /\ \A f \in FutIds : WF_vars(Worker(f))
    /\ WF_vars(HandlerStep)

SpecLive == Init /\ [][NextLive]_vars /\ Fairness

\* ======================================================================
\* The claims
\* ======================================================================
OnWorker(t) == \E f \in Running : ftask[f] = t

InsideDone(t) ==
    \/ \E f \in Running : ftask[f] = t /\ pc[f] = "done2"
    \/ evpc = "c_done2" /\ evtask = t
    \/ shpc = "c_done2" /\ shtask = t

Quiescent ==
    /\ evpc = "idle"
    /\ shpc = "wait"
    /\ \A f \in FutIds : fstate[f] \notin {"PENDING", "RUNNING"}

\* C1 (coalescing): when the external job is invoked for a path whose latest
\* touch continued a burst (it came less than the delay after the touch before,
\* and the path was never deleted), the invocation is no earlier than that
\* latest touch + delay.
C1_Coalescing ==
    \A f \in FutIds : jobSaw[f] # None => jobStart[f] >= jobSaw[f] + COALESCING_DELAY

\* C2 (delete before due): a task deleted while QUEUED or SLEEPING inside its
\* debounce window and not touched since never has its job invoked, and once
\* the delete handler has returned and no process() call is left it is DONE.
C2_DeleteBeforeDue ==
    \A t \in TaskIds : delPending[t] =>
        /\ ~Executing(t)
        /\ (~Live(t) /\ evtask # t) => state[t] = "DONE"

\* C3 (touch during execution): outside shutdown, a task touched while its job
\* was executing and not cancelled since stays on the pool until the additional
\* run has started: the run in flight is followed by a re-enqueue.
C3_TouchDuringExecution ==
    \A t \in TaskIds : (execTouched[t] /\ shpc = "wait") => Live(t)

\* C4 (no lost touch): when every thread has come to rest (no handler running,
\* nothing pending or running on the pool, no shutdown), no path is left with
\* a touch that was followed neither by a delete nor by a job start.
C4_NoLostTouch ==
    Quiescent => \A p \in Paths : ~owed[p]

\* C5 (job failure does not strand the task): a task is ACTIVE only while a
\* worker is running its process() call; whatever the job's exit status, the
\* task leaves ACTIVE.
C5_JobFailureDoesNotStrand ==
    \A t \in TaskIds : state[t] = "ACTIVE" => OnWorker(t)

\* C6 (per-path mutual exclusion): at most one invocation of the external job
\* is in flight per path, over all task objects of that path.
C6_PerPathMutualExclusion ==
    \A p \in Paths :
        Cardinality({f \in Running : pc[f] = "exec" /\ path[ftask[f]] = p}) <= 1

\* C7 (one live task per path): per path at most one task is still on the pool,
\* and, unless on_file_touched is just about to insert it, it is the task the
\* registry maps the path to.
C7_OneLiveTaskPerPath ==
    \A t \in TaskIds : Live(t) =>
        /\ \A u \in TaskIds : (Live(u) /\ path[u] = path[t]) => u = t
        /\ (evpc = "insert" /\ evtask = t) \/ (InRegistry(path[t]) /\ Lookup(path[t]) = t)

\* C8 (DONE implies unregistered): a task that is DONE and whose completion
\* callback is not just running is not reachable through the registry.
C8_DoneImpliesUnregistered ==
    \A t \in TaskIds : (state[t] = "DONE" /\ Registered(t)) => InsideDone(t)

\* C9 (bounded parallelism): at most max_workers tasks have their process()
\* call running on a worker, and at most max_workers external jobs execute.
C9_BoundedParallelism ==
    /\ Cardinality({t \in TaskIds : OnWorker(t)}) <= max_workers
    /\ Cardinality({t \in TaskIds : Executing(t)}) <= max_workers

\* C9 witness: max_workers jobs execute while another task waits in the queue.
C9_Witness ==
    /\ Cardinality({t \in TaskIds : Executing(t)}) = max_workers
    /\ workq # <<>>

\* C10 (shutdown cancels queued work): a task that was QUEUED when shutdown()
\* took its snapshot never has its job invoked afterwards, and is DONE when
\* shutdown() has returned.
C10_ShutdownCancelsQueued ==
    \A t \in shutQueued :
        /\ ~Executing(t)
        /\ shpc = "done" => state[t] = "DONE"

\* The registry maps the task's path to this very task object.
OwnEntry(t) == InRegistry(path[t]) /\ Lookup(path[t]) = t

\* C11 (shutdown drains running work): when shutdown() has returned, no
\* process() call is running or pending on the pool (so every job in flight at
\* its start has completed), every task that existed when it was entered is
\* DONE, and the registry is empty.
C11_ShutdownDrains ==
    shpc = "done" =>
        /\ \A f \in FutIds : fstate[f] \notin {"PENDING", "RUNNING"}
        /\ \A t \in shutTasks : state[t] = "DONE"
        /\ current_tasks = <<>>

\* C12 (shutdown step ordering): once shutdown() has performed its first step
\* (lines 249-252), no on_file_touched / on_file_deleted handler is running and
\* none can begin; from then on no step creates a task or records a touch, and
\* once the pool is closed no future is added to it.
C12_NoCallbackAfterStop ==
    /\ [](shpc # "wait" => (evpc = "idle" /\ observer # "running"))
    /\ [][shpc # "wait" =>
            /\ path' = path
            /\ \A t \in TaskIds : last_touch'[t] \in {last_touch[t], None}
            /\ threadpool # "up" =>
                    \A f \in FutIds : fstate'[f] = "PENDING" => fstate[f] = "PENDING"]_vars

\* C12 witness: events have been handled and more could have come; shutdown()
\* has stopped the observer, cancelled, and waits for the pool while a job runs.
C12_Witness ==
    /\ shpc = "join" /\ observer = "stopped"
    /\ nevents \in 1..(MaxEvents - 1)
    /\ \E f \in Running : pc[f] = "exec"

\* C13 (exactly-once removal): every invocation of on_task_done, from a worker,
\* from the observer's cancel() or from shutdown()'s cancel(), finds the task's
\* own entry under task.path.  An entry is stored once, so a second invocation
\* for the same task would find a missing key or another task's entry.
C13_ExactlyOnceRemoval ==
    [][/\ \A f \in FutIds :
            (fstate[f] = "RUNNING" /\ pc[f] = "done2" /\ pc'[f] # "done2") => OwnEntry(ftask[f])
       /\ (evpc = "c_done2" /\ evpc' # "c_done2") => OwnEntry(evtask)
       /\ (shpc = "c_done2" /\ shpc' # "c_done2") => OwnEntry(shtask)]_vars

\* C14 (DONE is terminal): no step of any thread changes the state of a task
\* that is DONE.  The job is invoked only after state = ACTIVE has been stored,
\* so a task whose state stays DONE never invokes it.
C14_DoneIsTerminal ==
    [][\A t \in TaskIds : state[t] = "DONE" => state'[t] = "DONE"]_vars

\* C15 (deferred cancel while ACTIVE): a task cancelled while its job was
\* executing and not touched since is ACTIVE, registered and still inside that
\* process() call (in the job, or between its return and done()), or it is DONE.
C15_DeferredCancel ==
    \A t \in TaskIds : cancelledActive[t] =>
        \/ state[t] = "DONE"
        \/ /\ state[t] = "ACTIVE"
           /\ OwnEntry(t)
           /\ \E f \in Running : ftask[f] = t /\ pc[f] \in {"exec", "post", "done1"}

\* C16 (pool cancellation failure): a task on which cancel() found QUEUED while
\* its process() call was already running is, for as long as that call is in
\* its debounce wait or its run, not DONE and still registered.
C16_CancelFailureIsNoCancel ==
    \A t \in TaskIds : cancelFailed[t] =>
        \A f \in Running :
            (ftask[f] = t /\ pc[f] \in {"check", "due", "cmp", "sleep", "active", "clear", "exec"})
                => (state[t] # "DONE" /\ OwnEntry(t))

\* C17 (enqueue() precondition): the assertion at the top of enqueue() never
\* fails.
C17_EnqueueAssertion ==
    "process:AssertionError" \notin raised

\* C17 witness: process() has called enqueue() and passed the assertion while
\* shutdown() is past its first step (cancel-all or later).
C17_Witness ==
    /\ shpc \notin {"wait", "snapshot"}
    /\ \E f \in Running : pc[f] = "enq1s" /\ state[ftask[f]] = "ACTIVE"

\* C18 (no leak): under fair scheduling and with no shutdown, once events have
\* stopped the registry becomes empty and stays so, and every task that was
\* created is DONE from then on.
C18_NoLeak ==
    <>[](/\ current_tasks = <<>>
         /\ \A t \in TaskIds : state[t] \in {"NONE", "DONE"})

\* C19 (no null due-time computation): line 156 never adds the delay to a
\* last_touch of None.
C19_NoNullDue ==
    "process:TypeError" \notin raised

\* C20 (registry lookups are race-free): when the observer thread indexes the
\* registry after a successful membership test, to call touch() or cancel(), the
\* entry is present and its task is not DONE.
C20_LookupsRaceFree ==
    [][/\ (evpc = "touch" /\ evpc' # "touch")
            => (InRegistry(evpath) /\ state[Lookup(evpath)] # "DONE")
       /\ (evpc = "cancel" /\ evpc' # "cancel")
            => (InRegistry(evpath) /\ state[Lookup(evpath)] # "DONE")]_vars

====
